---- MODULE Spec2Model ----
(***************************************************************************)
(* Model of pumpwood_streamlit.  Its core is state_manager.StateManager:   *)
(* the session state accessor (init / get_value / set_value /              *)
(* does_state_exists) and the before/after get/set triggers it runs        *)
(* (specification Spec).  Around it are the authentication classes and the *)
(* dashboard base class (specification SpecAuth) and the registration of   *)
(* the dashboard on the gateway (specification SpecRegister).              *)
(*                                                                         *)
(* The program is single threaded: one call of a StateManager class method *)
(* runs to completion (return or raise) before the next one starts, so     *)
(* every call is one action.  What happens inside a call (the triggers it  *)
(* runs, the write, the lookup, the debug dump, nested calls made by the   *)
(* trigger functions) is computed statement by statement by the operators  *)
(* below and recorded, in order, in the trace of the call.                 *)
(***************************************************************************)
EXTENDS Integers, Sequences, FiniteSets, TLC

VARIABLES
    session_state,      \* st.session_state: a mapping from keys to values
    TRIGGERS,           \* StateManager.TRIGGERS of the dashboard
    DEBUG_FILES_PATH,   \* os.getenv('DEBUG_FILES_PATH')
    last,               \* the last call made, its outcome and its trace
    written,            \* history: the value of the latest write to each key
    inited,             \* history: the keys init has been called for
    environ,            \* os.environ: the other environment variables
    cookies,            \* st.context.cookies.get("PumpwoodAuthorization")
    self,               \* the authentication or dashboard object built
    requests,           \* history: the saves the gateway has received
    logins              \* history: the headers given to set_auth_header

vars ==
    <<session_state, TRIGGERS, DEBUG_FILES_PATH, last, written, inited,
      environ, cookies, self, requests, logins>>

(***************************************************************************)
(* Bounds.                                                                 *)
(***************************************************************************)
MaxInt == 1     \* the integer values stored are 1..MaxInt
MaxDepth == 2   \* depth of nested calls after which Python gives up

(***************************************************************************)
(* Python values.  Every value is a record with the same fields, so that   *)
(* any two can be compared.                                                *)
(*                                                                         *)
(* Throughout the module a record is written with its fields in the order  *)
(* in which their names first occur in the module, which is the order TLC  *)
(* keeps them in.                                                          *)
(***************************************************************************)
PyNone == [t |-> "NoneType", n |-> 0, s |-> ""]
PyInt(n) == [t |-> "int", n |-> n, s |-> ""]
PyStr(s) == [t |-> "str", n |-> 0, s |-> s]
PyBool(b) == [t |-> "bool", n |-> IF b THEN 1 ELSE 0, s |-> ""]
\* a pandas.DataFrame: comparisons are element-wise, truth value ambiguous
PyDataFrame == [t |-> "DataFrame", n |-> 0, s |-> ""]
\* an object pumpJsonDump can not serialize (a function, a connection...)
PyObject == [t |-> "object", n |-> 0, s |-> ""]

\* the default of get_value's default_value parameter
EMPTY_VALUE == PyStr("__empty_value__")

Keys == {"a", "b"}

\* the values the dashboard stores with init and set_value
Values == {PyNone, PyDataFrame, PyObject} \cup {PyInt(n) : n \in 1..MaxInt}

\* the values the dashboard passes as default_value of get_value
Defaults == {PyNone, EMPTY_VALUE, PyDataFrame}

(***************************************************************************)
(* Exceptions.  depth is the depth of the call whose code raised: 0 is the *)
(* call made by the dashboard, 1 a trigger function it ran, and so on.     *)
(***************************************************************************)
NoExc == [type |-> "", state |-> "", depth |-> 0]

Exc(type, state, depth) == [type |-> type, state |-> state, depth |-> depth]

NotFound == "PumpwoodStreamlitStateNotFoundException"

ConfigError == "PumpwoodStreamlitConfigException"

(***************************************************************************)
(* Calls and triggers.                                                     *)
(*   op    : the class method called                                       *)
(*   state : its state argument                                            *)
(*   value : init_value / default_value / value                            *)
(*   flag  : force_value / ignore_init_error / raise_if_not_found          *)
(*   given : get_value only, the caller passed default_value               *)
(***************************************************************************)
Call(op, state, value, flag, given) ==
    [state |-> state, op |-> op, value |-> value, flag |-> flag, given |-> given]

NoCall == Call("", "", PyNone, FALSE, FALSE)

\* a trigger function: does nothing, raises, or calls the StateManager
FunNoop == [kind |-> "noop", call |-> NoCall]
FunRaise == [kind |-> "raise", call |-> NoCall]
FunCall(c) == [kind |-> "call", call |-> c]

StateTrigger(type, fun) == [type |-> type, fun |-> fun]

StateBeforeGetTrigger(fun) == StateTrigger("StateBeforeGetTrigger", fun)
StateAfterGetTrigger(fun) == StateTrigger("StateAfterGetTrigger", fun)
StateBeforeSetTrigger(fun) == StateTrigger("StateBeforeSetTrigger", fun)
StateAfterSetTrigger(fun) == StateTrigger("StateAfterSetTrigger", fun)

\* an entry of the TRIGGERS dictionary: a list, or something that is not
TriggerList(items) == [items |-> items, is_list |-> TRUE]
NotAList == [items |-> <<>>, is_list |-> FALSE]

(***************************************************************************)
(* The machine a call runs on: the session state, the trace of what has    *)
(* happened so far, the debug files written, the pending exception and the *)
(* value returned.                                                         *)
(***************************************************************************)
\* ev "trigger": the op-type trigger at index idx of TRIGGERS[state] is run
\* ev "write"  : op (called with flag) stores val under state, which is new
\*               when the key was not in the session state
\* ev "lookup" : get_value reads val for state
Event(ev, op, state, idx, val, new, flag, depth) ==
    [state |-> state, depth |-> depth, op |-> op, flag |-> flag, ev |-> ev,
     idx |-> idx, val |-> val, new |-> new]

Machine(ss) ==
    [ss |-> ss, trace |-> <<>>, files |-> <<>>, exc |-> NoExc, ret |-> PyNone]

Raise(m, type, state, depth) == [m EXCEPT !.exc = Exc(type, state, depth)]

Return(m, v) == [m EXCEPT !.ret = v]

Log(m, e) == [m EXCEPT !.trace = Append(@, e)]

Raised(m) == m.exc # NoExc

(***************************************************************************)
(* Python and streamlit primitives.                                        *)
(***************************************************************************)
\* x != y as an `if` sees it: "True", "False", or "ambiguous" for the
\* element-wise result of a DataFrame comparison, whose truth value raises
PyNe(x, y) ==
    IF x.t = "DataFrame" \/ y.t = "DataFrame" THEN "ambiguous"
    ELSE IF x = y THEN "False" ELSE "True"

\* state in st.session_state
Contains(ss, state) == state \in DOMAIN ss

\* variant: storing None drops the entry
SetItem_pop_none(ss, state, value) ==
    [k \in (DOMAIN ss \cup {state}) \ (IF value = PyNone THEN {state} ELSE {})
        |-> IF k = state THEN value ELSE ss[k]]

\* st.session_state[state] = value
SetItem(ss, state, value) ==
    [k \in DOMAIN ss \cup {state} |-> IF k = state THEN value ELSE ss[k]]

\* variant: the default shadows the stored value
GetItem_default_first(ss, state, default_value) ==
    IF default_value # EMPTY_VALUE \/ state \notin DOMAIN ss
    THEN default_value ELSE ss[state]

\* st.session_state.get(state, default_value)
GetItem(ss, state, default_value) ==
    IF state \in DOMAIN ss THEN ss[state] ELSE default_value

\* cls.TRIGGERS.get(state, [])
TriggersGet(state) ==
    IF state \in DOMAIN TRIGGERS THEN TRIGGERS[state] ELSE TriggerList(<<>>)

\* pumpJsonDump(data, indent=2) returns, rather than raises
JsonSerializable(data) == data.t # "object"

DebugFile(state, type, extension, empty) ==
    [type |-> type, state |-> state, extension |-> extension, empty |-> empty]

(***************************************************************************)
(* StateManager.debug_data                                                 *)
(***************************************************************************)
debug_data(m, state_name, operation_type, data, depth) ==
    IF DEBUG_FILES_PATH = PyNone THEN m
    ELSE IF data.t = "DataFrame"
    THEN [m EXCEPT !.files = @ \o
            <<DebugFile(state_name, operation_type, "xlsx", FALSE),
              DebugFile(state_name, operation_type, "parquet", FALSE)>>]
    ELSE IF JsonSerializable(data)
    THEN [m EXCEPT !.files =
            Append(@, DebugFile(state_name, operation_type, "json", FALSE))]
    \* json_data was never bound: open() has created the file, write raises
    ELSE Raise([m EXCEPT !.files =
                  Append(@, DebugFile(state_name, operation_type, "json", TRUE))],
               "UnboundLocalError", state_name, depth)

(***************************************************************************)
(* StateManager.does_state_exists                                          *)
(***************************************************************************)
does_state_exists(m, state, raise_if_not_found, depth) ==
    IF ~Contains(m.ss, state)
    THEN IF raise_if_not_found
         THEN Raise(m, NotFound, state, depth)
         ELSE Return(m, PyBool(FALSE))
    ELSE Return(m, PyBool(TRUE))

(***************************************************************************)
(* StateManager.init                                                       *)
(***************************************************************************)
\* variant: the guard is lost and init always writes
init_writes_always(ss, state, force_value) == TRUE

\* (state not in st.session_state) or force_value
init_writes(ss, state, force_value) == ~Contains(ss, state) \/ force_value

init(m, state, init_value, force_value, depth) ==
    IF init_writes(m.ss, state, force_value)
    THEN LET m1 == Log([m EXCEPT !.ss = SetItem(@, state, init_value)],
                       Event("write", "init", state, 0, init_value,
                             ~Contains(m.ss, state), force_value, depth))
             m2 == debug_data(m1, state, "init", init_value, depth)
         IN  IF Raised(m2) THEN m2 ELSE Return(m2, PyStr(state))
    ELSE Return(m, PyStr(state))

(***************************************************************************)
(* Triggers.                                                               *)
(***************************************************************************)
RECURSIVE call_op(_, _, _)
RECURSIVE run_triggers(_, _, _, _, _, _)

\* StateTrigger.run: self._trigger_fun(**kwargs), running at depth
run(m, trigger, depth) ==
    CASE trigger.fun.kind = "noop" -> m
      [] trigger.fun.kind = "raise" -> Raise(m, "TriggerError", "", depth)
      [] trigger.fun.kind = "call" -> call_op(m, trigger.fun.call, depth)

\* variant: the list is walked from its end
run_triggers_reversed(m, state, state_name_triggers, type, i, depth) ==
    LET j == Len(state_name_triggers) + 1 - i IN
    IF Raised(m) \/ i > Len(state_name_triggers) THEN m
    ELSE IF state_name_triggers[j].type = type
    THEN run_triggers(
            run(Log(m, Event("trigger", type, state, j, PyNone, FALSE, FALSE,
                          depth)),
                state_name_triggers[j], depth + 1),
            state, state_name_triggers, type, i + 1, depth)
    ELSE run_triggers(m, state, state_name_triggers, type, i + 1, depth)

\* variant: every trigger of the list is run, whatever its type
run_triggers_any_type(m, state, state_name_triggers, type, i, depth) ==
    IF Raised(m) \/ i > Len(state_name_triggers) THEN m
    ELSE run_triggers(
            run(Log(m, Event("trigger", state_name_triggers[i].type, state, i,
                             PyNone, FALSE, FALSE, depth)),
                state_name_triggers[i], depth + 1),
            state, state_name_triggers, type, i + 1, depth)

\* for trigger in state_name_triggers:
\*     if isinstance(trigger, type): trigger.run(**kwargs)
\* from the i-th trigger of the list on
run_triggers(m, state, state_name_triggers, type, i, depth) ==
    IF Raised(m) \/ i > Len(state_name_triggers) THEN m
    ELSE IF state_name_triggers[i].type = type
    THEN run_triggers(
            run(Log(m, Event("trigger", type, state, i, PyNone, FALSE, FALSE, depth)),
                state_name_triggers[i], depth + 1),
            state, state_name_triggers, type, i + 1, depth)
    ELSE run_triggers(m, state, state_name_triggers, type, i + 1, depth)

(***************************************************************************)
(* StateManager.get_value                                                  *)
(***************************************************************************)
\* (state in st.session_state) or (default_value != "__empty_value__")
get_is_val_state_present(ss, state, default_value) ==
    IF Contains(ss, state) THEN "True" ELSE PyNe(default_value, EMPTY_VALUE)

\* variant: the state is read after the after-get triggers have run
get_value_late_lookup(m, state, default_value, depth) ==
    LET is_val_state_present ==
            get_is_val_state_present(m.ss, state, default_value)
        state_name_triggers == TriggersGet(state)
    IN
    IF is_val_state_present = "ambiguous"
    THEN Raise(m, "ValueError", state, depth)
    ELSE IF is_val_state_present = "False"
    THEN Raise(m, NotFound, state, depth)
    ELSE IF ~state_name_triggers.is_list
    THEN Raise(m, ConfigError, state, depth)
    ELSE
    LET m1 == run_triggers(m, state, state_name_triggers.items,
                           "StateBeforeGetTrigger", 1, depth)
        m2 == Log(m1, Event("lookup", "get_value", state, 0,
                            GetItem(m1.ss, state, default_value), FALSE, FALSE,
                            depth))
        m3 == run_triggers(m2, state, state_name_triggers.items,
                           "StateAfterGetTrigger", 1, depth)
    IN  IF Raised(m1) THEN m1
        ELSE IF Raised(m3) THEN m3
        ELSE Return(m3, GetItem(m3.ss, state, default_value))

\* variant: a default value that is returned is stored as well
get_value_store_default(m, state, default_value, depth) ==
    LET is_val_state_present ==
            get_is_val_state_present(m.ss, state, default_value)
        state_name_triggers == TriggersGet(state)
    IN
    IF is_val_state_present = "ambiguous"
    THEN Raise(m, "ValueError", state, depth)
    ELSE IF is_val_state_present = "False"
    THEN Raise(m, NotFound, state, depth)
    ELSE IF ~state_name_triggers.is_list
    THEN Raise(m, ConfigError, state, depth)
    ELSE
    LET m1 == run_triggers(m, state, state_name_triggers.items,
                           "StateBeforeGetTrigger", 1, depth)
        state_value == GetItem(m1.ss, state, default_value)
        m2 == Log([m1 EXCEPT !.ss = SetItem(@, state, state_value)],
                  Event("lookup", "get_value", state, 0, state_value,
                        FALSE, FALSE, depth))
        m3 == run_triggers(m2, state, state_name_triggers.items,
                           "StateAfterGetTrigger", 1, depth)
    IN  IF Raised(m1) THEN m1
        ELSE IF Raised(m3) THEN m3
        ELSE Return(m3, state_value)

get_value(m, state, default_value, depth) ==
    LET is_val_state_present ==
            get_is_val_state_present(m.ss, state, default_value)
        state_name_triggers == TriggersGet(state)
    IN
    IF is_val_state_present = "ambiguous"
    THEN Raise(m, "ValueError", state, depth)
    ELSE IF is_val_state_present = "False"
    THEN Raise(m, NotFound, state, depth)
    ELSE IF ~state_name_triggers.is_list
    THEN Raise(m, ConfigError, state, depth)
    ELSE
    LET m1 == run_triggers(m, state, state_name_triggers.items,
                           "StateBeforeGetTrigger", 1, depth)
        state_value == GetItem(m1.ss, state, default_value)
        m2 == Log(m1, Event("lookup", "get_value", state, 0, state_value,
                            FALSE, FALSE, depth))
        m3 == run_triggers(m2, state, state_name_triggers.items,
                           "StateAfterGetTrigger", 1, depth)
    IN  IF Raised(m1) THEN m1
        ELSE IF Raised(m3) THEN m3
        ELSE Return(m3, state_value)

(***************************************************************************)
(* StateManager.set_value                                                  *)
(***************************************************************************)
\* variant: `and` in place of `or`
set_is_val_state_present_and(ss, state, ignore_init_error) ==
    Contains(ss, state) /\ ignore_init_error

\* variant: the check is lost
set_is_val_state_present_unchecked(ss, state, ignore_init_error) == TRUE

\* (state in st.session_state) or ignore_init_error
set_is_val_state_present(ss, state, ignore_init_error) ==
    Contains(ss, state) \/ ignore_init_error

\* variant: the value is stored before the before-set triggers are run
set_value_write_first(m, state, value, ignore_init_error, depth) ==
    LET state_name_triggers == TriggersGet(state) IN
    IF ~set_is_val_state_present(m.ss, state, ignore_init_error)
    THEN Raise(m, NotFound, state, depth)
    ELSE IF ~state_name_triggers.is_list
    THEN Raise(m, ConfigError, state, depth)
    ELSE
    LET m1 == Log([m EXCEPT !.ss = SetItem(@, state, value)],
                  Event("write", "set_value", state, 0, value,
                        ~Contains(m.ss, state), ignore_init_error, depth))
        m2 == run_triggers(m1, state, state_name_triggers.items,
                           "StateBeforeSetTrigger", 1, depth)
        m3 == debug_data(m2, state, "set", value, depth)
        m4 == run_triggers(m3, state, state_name_triggers.items,
                           "StateAfterSetTrigger", 1, depth)
    IN  IF Raised(m2) THEN m2
        ELSE IF Raised(m3) THEN m3
        ELSE IF Raised(m4) THEN m4
        ELSE Return(m4, PyBool(TRUE))

set_value(m, state, value, ignore_init_error, depth) ==
    LET state_name_triggers == TriggersGet(state) IN
    IF ~set_is_val_state_present(m.ss, state, ignore_init_error)
    THEN Raise(m, NotFound, state, depth)
    ELSE IF ~state_name_triggers.is_list
    THEN Raise(m, ConfigError, state, depth)
    ELSE
    LET m1 == run_triggers(m, state, state_name_triggers.items,
                           "StateBeforeSetTrigger", 1, depth)
        m2 == Log([m1 EXCEPT !.ss = SetItem(@, state, value)],
                  Event("write", "set_value", state, 0, value,
                        ~Contains(m1.ss, state), ignore_init_error, depth))
        m3 == debug_data(m2, state, "set", value, depth)
        m4 == run_triggers(m3, state, state_name_triggers.items,
                           "StateAfterSetTrigger", 1, depth)
    IN  IF Raised(m1) THEN m1
        ELSE IF Raised(m3) THEN m3
        ELSE IF Raised(m4) THEN m4
        ELSE Return(m4, PyBool(TRUE))

(***************************************************************************)
(* StateManager.get_states_and_triggers                                    *)
(***************************************************************************)
\* `for key, item in st.session_state.items:` names the method items and
\* does not call it: a bound method is not iterable, so the loop raises
\* before its first turn, whatever the session state holds
get_states_and_triggers(m, depth) == Raise(m, "TypeError", "", depth)

(***************************************************************************)
(* A call of a class method of StateManager, at depth of nesting.          *)
(***************************************************************************)
call_op(m, c, depth) ==
    IF depth > MaxDepth THEN Raise(m, "RecursionError", c.state, depth)
    ELSE CASE c.op = "init" -> init(m, c.state, c.value, c.flag, depth)
           [] c.op = "get_value" ->
                get_value(m, c.state,
                          IF c.given THEN c.value ELSE EMPTY_VALUE, depth)
           [] c.op = "set_value" ->
                set_value(m, c.state, c.value, c.flag, depth)
           [] c.op = "does_state_exists" ->
                does_state_exists(m, c.state, c.flag, depth)
           [] c.op = "get_states_and_triggers" ->
                get_states_and_triggers(m, depth)

(***************************************************************************)
(* Dashboards: the TRIGGERS dictionaries a StateManager subclass defines.  *)
(* The trigger functions only use the StateManager.                        *)
(***************************************************************************)
EmptyDict == [k \in {} |-> PyNone]

\* TRIGGERS = {}
TriggersNone == EmptyDict

\* get and set triggers interleaved in one list; functions that write the
\* key they are registered for and functions that touch the other key
TriggersOrdered ==
    ("a" :> TriggerList(<<
        StateBeforeSetTrigger(FunNoop),
        StateAfterGetTrigger(FunCall(Call("init", "a", PyNone, TRUE, FALSE))),
        StateAfterSetTrigger(FunCall(Call("get_value", "b", PyNone, FALSE, TRUE))),
        StateBeforeGetTrigger(FunCall(Call("init", "a", PyInt(1), TRUE, FALSE))),
        StateBeforeSetTrigger(FunCall(Call("set_value", "b", PyInt(1), TRUE, FALSE))),
        StateAfterSetTrigger(FunNoop)>>))
    @@
    ("b" :> TriggerList(<<
        StateAfterSetTrigger(FunNoop),
        StateBeforeGetTrigger(FunNoop)>>))

\* an entry that is not a list; trigger functions that need another state,
\* which may be missing; an after-set trigger that raises
TriggersFaulty ==
    ("a" :> NotAList)
    @@
    ("b" :> TriggerList(<<
        StateBeforeSetTrigger(
            FunCall(Call("does_state_exists", "a", PyNone, TRUE, FALSE))),
        StateBeforeGetTrigger(FunCall(Call("get_value", "a", PyNone, FALSE, FALSE))),
        StateAfterSetTrigger(FunRaise),
        StateAfterSetTrigger(FunNoop)>>))

\* a before-set and an after-get trigger that raise; a before-set trigger
\* that sets its own state again
TriggersRaising ==
    ("a" :> TriggerList(<<
        StateBeforeSetTrigger(FunNoop),
        StateBeforeSetTrigger(FunRaise),
        StateAfterSetTrigger(FunNoop),
        StateAfterGetTrigger(FunRaise)>>))
    @@
    ("b" :> TriggerList(<<
        StateBeforeSetTrigger(FunCall(Call("set_value", "b", PyNone, TRUE, FALSE)))>>))

Dashboards == {TriggersNone, TriggersOrdered, TriggersFaulty, TriggersRaising}

(***************************************************************************)
(* The environment variables read besides DEBUG_FILES_PATH, and the object *)
(* a dashboard application builds once (its singleton).  An unset variable *)
(* is None, as os.getenv gives it.                                         *)
(***************************************************************************)
EnvNames ==
    {"DEBUG_AUTHORIZATION_TOKEN", "DEPLOY", "PUMPWOOD_STREAMLIT__DEPLOY",
     "MICROSERVICE_URL", "SERVICE_URL", "DASHBOARD_NAME"}

\* no variable is set
NoEnviron == [k \in EnvNames |-> PyNone]

\* os.getenv(name, default)
getenv(name, default) ==
    IF environ[name] = PyNone THEN default ELSE environ[name]

\* cls is the class of the object, auth_header its attribute of that name
\* (_auth_token in src/src dashboard.py)
Object(cls, auth_header) == [cls |-> cls, auth_header |-> auth_header]

\* no object is built
NoObject == Object("", PyNone)

(***************************************************************************)
(* The session.                                                            *)
(***************************************************************************)
NoLast ==
    [call |-> NoCall, trace |-> <<>>, files |-> <<>>, exc |-> NoExc,
     ret |-> PyNone]

\* the indexes of the writes to state in a trace
Writes(trace, state) ==
    {i \in 1..Len(trace) : trace[i].ev = "write" /\ trace[i].state = state}

Min(S) == CHOOSE i \in S : \A j \in S : i <= j

Max(S) == CHOOSE i \in S : \A j \in S : i >= j

\* the dashboard calls c and the call runs to its return or to its raise
Do(c) ==
    \E m \in {call_op(Machine(session_state), c, 0)} :
    /\ session_state' = m.ss
    /\ last' = [call |-> c, trace |-> m.trace, files |-> m.files,
                exc |-> m.exc,
                ret |-> IF Raised(m) THEN PyNone ELSE m.ret]
    /\ written' = [k \in DOMAIN written \cup
                         {k \in Keys : Writes(m.trace, k) # {}} |->
                     IF Writes(m.trace, k) # {}
                     THEN m.trace[Max(Writes(m.trace, k))].val
                     ELSE written[k]]
    /\ inited' = IF c.op = "init" THEN inited \cup {c.state} ELSE inited

Init ==
    /\ session_state = EmptyDict
    /\ TRIGGERS \in Dashboards
    /\ DEBUG_FILES_PATH \in {PyNone, PyStr("/debug")}
    /\ last = NoLast
    /\ written = EmptyDict
    /\ inited = {}
    /\ environ = NoEnviron
    /\ cookies = PyNone
    /\ self = NoObject
    /\ requests = {}
    /\ logins = {}

\* StateManager.init(state, init_value, force_value)
CallInit ==
    /\ \E state \in Keys, init_value \in Values, force_value \in BOOLEAN :
          Do(Call("init", state, init_value, force_value, FALSE))
    /\ UNCHANGED <<TRIGGERS, DEBUG_FILES_PATH, environ, cookies, self,
                   requests, logins>>

\* StateManager.get_value(state) and StateManager.get_value(state, default_value)
CallGetValue ==
    /\ \E state \in Keys :
          \/ Do(Call("get_value", state, EMPTY_VALUE, FALSE, FALSE))
          \/ \E default_value \in Defaults :
                Do(Call("get_value", state, default_value, FALSE, TRUE))
    /\ UNCHANGED <<TRIGGERS, DEBUG_FILES_PATH, environ, cookies, self,
                   requests, logins>>

\* StateManager.set_value(state, value, ignore_init_error)
CallSetValue ==
    /\ \E state \in Keys, value \in Values, ignore_init_error \in BOOLEAN :
          Do(Call("set_value", state, value, ignore_init_error, FALSE))
    /\ UNCHANGED <<TRIGGERS, DEBUG_FILES_PATH, environ, cookies, self,
                   requests, logins>>

\* StateManager.does_state_exists(state, raise_if_not_found)
CallDoesStateExists ==
    /\ \E state \in Keys, raise_if_not_found \in BOOLEAN :
          Do(Call("does_state_exists", state, PyNone, raise_if_not_found,
                  FALSE))
    /\ UNCHANGED <<TRIGGERS, DEBUG_FILES_PATH, environ, cookies, self,
                   requests, logins>>

\* StateManager.get_states_and_triggers()
CallGetStatesAndTriggers ==
    /\ Do(Call("get_states_and_triggers", "", PyNone, FALSE, FALSE))
    /\ UNCHANGED <<TRIGGERS, DEBUG_FILES_PATH, environ, cookies, self,
                   requests, logins>>

Next ==
    \/ CallInit
    \/ CallGetValue
    \/ CallSetValue
    \/ CallDoesStateExists
    \/ CallGetStatesAndTriggers

Spec == Init /\ [][Next]_vars

TypeOK ==
    /\ DOMAIN session_state \subseteq Keys
    /\ \A k \in DOMAIN session_state : session_state[k] \in Values
    /\ TRIGGERS \in Dashboards
    /\ written = session_state

(***************************************************************************)
(* Exceptions of pumpwood_streamlit.exceptions, and the ones the           *)
(* `except PumpWoodException` of the dashboard catches.                    *)
(***************************************************************************)
StreamlitException == "PumpwoodStreamlitException"

Unauthorized == "PumpwoodStreamlitUnauthorizedException"

\* variant: only PumpwoodStreamlitException and its subclass are caught
IsPumpWoodException_streamlit_only(type) ==
    type \in {StreamlitException, ConfigError}

\* isinstance(e, PumpWoodException)
IsPumpWoodException(type) ==
    type \in {StreamlitException, Unauthorized, NotFound, ConfigError}

(***************************************************************************)
(* Authentication: authentication/pumpwood/controller.py,                  *)
(* authentication/login/controller.py and the older authentication.py.     *)
(***************************************************************************)
\* {"Authorization": token}
Header(token) == [t |-> "dict", n |-> 1, s |-> token]

\* {}
EmptyMapping == [t |-> "dict", n |-> 0, s |-> ""]

AUTH_TOKEN_STATE == "PumpwoodAuthorizationToken"

PumpwoodAuthentication == "StreamlitPumpwoodAuthentication"

UserAuthentication == "StreamlitUserAuthentication"

\* the class of src/src/pumpwood_streamlit/authentication.py
PumpwoodAuthetication == "StreamlitPumpwoodAuthetication"

AuthClasses ==
    {PumpwoodAuthentication, UserAuthentication, PumpwoodAuthetication}

\* `if x:` for x a string or None
Truthy(x) == x # PyNone /\ x # PyStr("")

\* os.getenv("DEPLOY", "FALSE") == "TRUE"
DEPLOY == getenv("DEPLOY", PyStr("FALSE")) = PyStr("TRUE")

\* os.getenv("DEBUG_AUTHORIZATION_TOKEN")
DEBUG_AUTHORIZATION_TOKEN == getenv("DEBUG_AUTHORIZATION_TOKEN", PyNone)

\* __init__ of the three classes: what it raises
auth_init(m, depth) ==
    IF Truthy(DEBUG_AUTHORIZATION_TOKEN) /\ DEPLOY
    THEN Raise(m, ConfigError, "", depth)
    ELSE m

\* __init__ of the three classes: the object it leaves
auth_init_self(cls) ==
    Object(cls,
           IF cls = PumpwoodAuthetication /\ Truthy(DEBUG_AUTHORIZATION_TOKEN)
           THEN Header(DEBUG_AUTHORIZATION_TOKEN.s)
           ELSE PyNone)

\* {"Authorization": 'Token ' + cookieauth_header}, or None without cookie
cookie_header ==
    IF cookies # PyNone THEN Header("Token " \o cookies.s) ELSE PyNone

\* StreamlitPumpwoodAuthetication.get_auth_header: the object it leaves
get_auth_header_self(slf) ==
    IF slf.cls = PumpwoodAuthetication /\ slf.auth_header = PyNone
    THEN Object(slf.cls, cookie_header)
    ELSE slf

\* variant: the cookie is looked at before the debug token
get_auth_header_cookie_first(m, slf, depth) ==
    IF cookie_header # PyNone THEN Return(m, cookie_header)
    ELSE IF DEBUG_AUTHORIZATION_TOKEN # PyNone
    THEN Return(m, Header(DEBUG_AUTHORIZATION_TOKEN.s))
    ELSE Return(m, PyNone)

\* variant: the state is read without default value
get_auth_header_no_default(m, slf, depth) ==
    IF slf.cls = UserAuthentication /\ DEBUG_AUTHORIZATION_TOKEN = PyNone
    THEN call_op(m, Call("get_value", AUTH_TOKEN_STATE, EMPTY_VALUE, FALSE,
                         FALSE), depth + 1)
    ELSE get_auth_header_cookie_first(m, slf, depth)

\* get_auth_header of the three classes
get_auth_header(m, slf, depth) ==
    IF slf.cls = PumpwoodAuthetication
    THEN Return(m, get_auth_header_self(slf).auth_header)
    ELSE IF DEBUG_AUTHORIZATION_TOKEN # PyNone
    THEN Return(m, Header(DEBUG_AUTHORIZATION_TOKEN.s))
    ELSE IF slf.cls = PumpwoodAuthentication
    THEN Return(m, cookie_header)
    ELSE call_op(m, Call("get_value", AUTH_TOKEN_STATE, EmptyMapping, FALSE,
                         TRUE), depth + 1)

\* StreamlitUserAuthentication.set_auth_header
set_auth_header(m, auth_header, depth) ==
    call_op(m, Call("set_value", AUTH_TOKEN_STATE, auth_header, TRUE, FALSE),
            depth + 1)

\* StreamlitUserAuthentication.logout
logout(m, depth) ==
    LET m1 == call_op(m, Call("set_value", AUTH_TOKEN_STATE, PyNone, TRUE,
                              FALSE), depth + 1)
    IN  IF Raised(m1) THEN m1 ELSE Return(m1, PyNone)

\* self.microservice.check_if_logged(auth_header=auth_header): the remote
\* service answers is_logged
remote_check_if_logged(m, auth_header, is_logged, depth) ==
    Return(Log(m, Event("remote", "check_if_logged", "", 0, auth_header,
                        FALSE, is_logged, depth)),
           PyBool(is_logged))

\* variant: the answer is returned whatever raise_error is
check_if_logged_quiet(m, slf, raise_error, is_logged, depth) ==
    LET m1 == get_auth_header(m, slf, depth)
    IN  IF Raised(m1) THEN m1
        ELSE remote_check_if_logged(m1, m1.ret, is_logged, depth)

\* check_if_logged of the three classes
check_if_logged(m, slf, raise_error, is_logged, depth) ==
    LET m1 == get_auth_header(m, slf, depth)
        m2 == remote_check_if_logged(m1, m1.ret, is_logged, depth)
    IN  IF Raised(m1) THEN m1
        ELSE IF m2.ret # PyBool(TRUE) /\ raise_error
        THEN Raise(m2, Unauthorized, "", depth)
        ELSE m2

(***************************************************************************)
(* The dashboard base class: src/src/pumpwood_streamlit/dashboard.py and   *)
(* src/build/lib/pumpwood_streamlit/dashboard.py.  The methods a dashboard *)
(* implements (set_page_config, main_view) are hooks: a hook returns, or   *)
(* raises the exception it names.                                          *)
(***************************************************************************)
\* the class of src/src/pumpwood_streamlit/dashboard.py
Dashboard == "PumpwoodStreamlitDashboard"

\* the class of src/build/lib/pumpwood_streamlit/dashboard.py
DashboardLib == "build/lib/PumpwoodStreamlitDashboard"

DashboardClasses == {Dashboard, DashboardLib}

\* what main_view does, and what set_page_config does
Hooks ==
    {"return", Unauthorized, NotFound, ConfigError, StreamlitException,
     "NotImplementedError"}

ConfigHooks == {"return", ConfigError, "NotImplementedError"}

\* __init__ of the two classes: what it raises
dashboard_init(m, cls, debug_microservice, depth) ==
    IF cls = Dashboard
    THEN IF debug_microservice
         THEN IF getenv("PUMPWOOD_STREAMLIT__DEPLOY", PyStr("FALSE"))
                    = PyStr("TRUE")
              THEN Raise(m, StreamlitException, "", depth)
              ELSE m
         ELSE IF getenv("MICROSERVICE_URL", PyNone) # PyNone THEN m
              ELSE Raise(m, "Exception", "", depth)
    ELSE IF Truthy(DEBUG_AUTHORIZATION_TOKEN) /\ DEPLOY
         THEN Raise(m, StreamlitException, "", depth)
         ELSE IF getenv("MICROSERVICE_URL", PyNone) # PyNone THEN m
              ELSE Raise(m, StreamlitException, "", depth)

\* __init__ of the two classes: the object it leaves
dashboard_init_self(cls) ==
    Object(cls,
           IF cls = DashboardLib /\ Truthy(DEBUG_AUTHORIZATION_TOKEN)
           THEN Header(DEBUG_AUTHORIZATION_TOKEN.s)
           ELSE PyNone)

\* validate_authentication: the object it leaves
validate_authentication_self(slf) ==
    IF cookies # PyNone THEN Object(slf.cls, cookie_header) ELSE slf

\* validate_authentication
validate_authentication(m, slf, is_logged, depth) ==
    remote_check_if_logged(
        Log(m, Event("call", "validate_authentication", "", 0, PyNone, FALSE,
                     FALSE, depth)),
        validate_authentication_self(slf).auth_header, is_logged, depth)

\* a method of the dashboard is entered
Enter(m, name, depth) ==
    Log(m, Event("call", name, "", 0, PyNone, FALSE, FALSE, depth))

\* a method the dashboard implements is called
call_hook(m, name, hook, depth) ==
    IF hook = "return" THEN Enter(m, name, depth)
    ELSE Raise(Log(Enter(m, name, depth),
                   Event("raise", name, "", 0, PyStr(hook), FALSE, FALSE,
                         depth + 1)),
               hook, name, depth + 1)

\* set_style of build/lib: os.listdir raises when the directory is missing
set_style(m, styles_dir, depth) ==
    IF styles_dir THEN Enter(m, "set_style", depth)
    ELSE Raise(Enter(m, "set_style", depth), "FileNotFoundError", "set_style",
               depth)

\* authentication_error_page
authentication_error_page(m, depth) ==
    Return(Enter(m, "authentication_error_page", depth), PyNone)

\* error_handler(exception=e), in the except clause
error_handler(m, depth) ==
    Return(Enter([m EXCEPT !.exc = NoExc], "error_handler", depth), PyNone)

\* variant: the main view is rendered before the validation
\* (config and view are what set_page_config and main_view do)
dashboard_run_view_first(m, slf, config, styles_dir, is_logged, view, depth) ==
    LET m1 == call_hook(m, "set_page_config", config, depth)
        m2 == call_hook(m1, "main_view", view, depth)
        m3 == validate_authentication(m2, slf, is_logged, depth)
    IN  IF Raised(m1) THEN m1
        ELSE IF Raised(m2) THEN m2
        ELSE IF m3.ret # PyBool(TRUE)
        THEN authentication_error_page(m3, depth)
        ELSE Return(m3, PyNone)

\* run
dashboard_run(m, slf, config, styles_dir, is_logged, view, depth) ==
    LET m1 == call_hook(m, "set_page_config", config, depth)
        m2 == IF slf.cls = DashboardLib THEN set_style(m1, styles_dir, depth)
              ELSE m1
        m3 == validate_authentication(m2, slf, is_logged, depth)
        m4 == call_hook(m3, "main_view", view, depth)
    IN  IF Raised(m1) THEN m1
        ELSE IF Raised(m2) THEN m2
        ELSE IF m3.ret # PyBool(TRUE)
        THEN authentication_error_page(m3, depth)
        ELSE IF Raised(m4) /\ IsPumpWoodException(m4.exc.type)
        THEN error_handler(m4, depth)
        ELSE IF Raised(m4) THEN m4
        ELSE Return(m4, PyNone)

\* run: the object it leaves
dashboard_run_self(slf, set_page_config, styles_dir) ==
    IF set_page_config = "return" /\ (slf.cls = Dashboard \/ styles_dir)
    THEN validate_authentication_self(slf)
    ELSE slf

(***************************************************************************)
(* The session of an application that builds one authentication or         *)
(* dashboard object and calls it; between two calls the browser may send   *)
(* another cookie.  The remote service answers as it likes.                *)
(***************************************************************************)
Tokens == {PyNone, PyStr(""), PyStr("tok")}

Cookies == {PyNone, PyStr("c1"), PyStr("c2")}

\* the headers a login gives
Headers == {Header("Token t1"), Header("Token t2")}

AuthEnviron(token, deploy, streamlit_deploy, url) ==
    [k \in EnvNames |->
        CASE k = "DEBUG_AUTHORIZATION_TOKEN" -> token
          [] k = "DEPLOY" -> deploy
          [] k = "PUMPWOOD_STREAMLIT__DEPLOY" -> streamlit_deploy
          [] k = "MICROSERVICE_URL" -> url
          [] OTHER -> PyNone]

AuthEnvirons ==
    {AuthEnviron(token, deploy, streamlit_deploy, url) :
        token \in Tokens,
        deploy \in {PyNone, PyStr("TRUE")},
        streamlit_deploy \in {PyNone, PyStr("TRUE")},
        url \in {PyNone, PyStr("http://auth")}}

\* what the session keeps of the call c, which ran on machine m and left
\* the object slf
Called(c, m, slf) ==
    /\ session_state' = m.ss
    /\ last' = [call |-> c, trace |-> m.trace, files |-> m.files,
                exc |-> m.exc,
                ret |-> IF Raised(m) THEN PyNone ELSE m.ret]
    /\ written' = IF Writes(m.trace, AUTH_TOKEN_STATE) # {}
                  THEN SetItem(written, AUTH_TOKEN_STATE,
                               m.trace[Max(Writes(m.trace,
                                                  AUTH_TOKEN_STATE))].val)
                  ELSE written
    /\ self' = slf

InitAuth ==
    /\ session_state = EmptyDict
    /\ TRIGGERS = TriggersNone
    /\ DEBUG_FILES_PATH \in {PyNone, PyStr("/debug")}
    /\ last = NoLast
    /\ written = EmptyDict
    /\ inited = {}
    /\ environ \in AuthEnvirons
    /\ cookies \in Cookies
    /\ self = NoObject
    /\ requests = {}
    /\ logins = {}

\* StreamlitPumpwoodAuthentication(microservice) and the other two classes
NewAuthentication ==
    /\ self = NoObject
    /\ \E cls \in AuthClasses :
          \E m \in {auth_init(Machine(session_state), 0)} :
             Called(Call("__init__", cls, PyNone, FALSE, FALSE), m,
                    IF Raised(m) THEN NoObject ELSE auth_init_self(cls))
    /\ UNCHANGED <<TRIGGERS, DEBUG_FILES_PATH, inited, environ, cookies,
                   requests, logins>>

\* Dashboard(debug_microservice) of src/src, Dashboard() of build/lib
NewDashboard ==
    /\ self = NoObject
    /\ \E cls \in DashboardClasses, debug_microservice \in BOOLEAN :
          /\ cls = DashboardLib => ~debug_microservice
          /\ \E m \in {dashboard_init(Machine(session_state), cls,
                                      debug_microservice, 0)} :
                Called(Call("__init__", cls, PyNone, debug_microservice,
                            FALSE), m,
                       IF Raised(m) THEN NoObject
                       ELSE dashboard_init_self(cls))
    /\ UNCHANGED <<TRIGGERS, DEBUG_FILES_PATH, inited, environ, cookies,
                   requests, logins>>

\* the browser sends the next request and the script runs again: no call
\* is made yet
Rerun ==
    /\ cookies' \in Cookies \ {cookies}
    /\ last' = NoLast
    /\ UNCHANGED <<session_state, TRIGGERS, DEBUG_FILES_PATH, written,
                   inited, environ, self, requests, logins>>

\* get_auth_header()
CallGetAuthHeader ==
    /\ self.cls \in AuthClasses
    /\ \E m \in {get_auth_header(Machine(session_state), self, 0)} :
          Called(Call("get_auth_header", self.cls, PyNone, FALSE, FALSE), m,
                 get_auth_header_self(self))
    /\ UNCHANGED <<TRIGGERS, DEBUG_FILES_PATH, inited, environ, cookies,
                   requests, logins>>

\* set_auth_header(auth_header)
CallSetAuthHeader ==
    /\ self.cls = UserAuthentication
    /\ \E auth_header \in Headers :
          \E m \in {set_auth_header(Machine(session_state), auth_header, 0)} :
             /\ Called(Call("set_auth_header", self.cls, auth_header,
                            FALSE, FALSE), m, self)
             /\ logins' = logins \cup {auth_header}
    /\ UNCHANGED <<TRIGGERS, DEBUG_FILES_PATH, inited, environ, cookies,
                   requests>>

\* logout()
CallLogout ==
    /\ self.cls = UserAuthentication
    /\ \E m \in {logout(Machine(session_state), 0)} :
          Called(Call("logout", self.cls, PyNone, FALSE, FALSE), m, self)
    /\ UNCHANGED <<TRIGGERS, DEBUG_FILES_PATH, inited, environ, cookies,
                   requests, logins>>

\* check_if_logged(raise_error)
CallCheckIfLogged ==
    /\ self.cls \in AuthClasses
    /\ \E raise_error \in BOOLEAN, is_logged \in BOOLEAN :
          \E m \in {check_if_logged(Machine(session_state), self, raise_error,
                                    is_logged, 0)} :
             Called(Call("check_if_logged", self.cls, PyNone, raise_error,
                         FALSE), m, get_auth_header_self(self))
    /\ UNCHANGED <<TRIGGERS, DEBUG_FILES_PATH, inited, environ, cookies,
                   requests, logins>>

\* run()
CallRun ==
    /\ self.cls \in DashboardClasses
    /\ \E set_page_config \in ConfigHooks, main_view \in Hooks,
          styles_dir \in BOOLEAN, is_logged \in BOOLEAN :
          /\ self.cls = Dashboard => styles_dir
          /\ \E m \in {dashboard_run(Machine(session_state), self,
                                  set_page_config, styles_dir, is_logged,
                                  main_view, 0)} :
                Called(Call("run", self.cls, PyNone, FALSE, FALSE), m,
                       dashboard_run_self(self, set_page_config, styles_dir))
    /\ UNCHANGED <<TRIGGERS, DEBUG_FILES_PATH, inited, environ, cookies,
                   requests, logins>>

NextAuth ==
    \/ NewAuthentication
    \/ NewDashboard
    \/ Rerun
    \/ CallGetAuthHeader
    \/ CallSetAuthHeader
    \/ CallLogout
    \/ CallCheckIfLogged
    \/ CallRun

SpecAuth == InitAuth /\ [][NextAuth]_vars

(***************************************************************************)
(* The login view: authentication/login/view.py.  streamlit_auth is the    *)
(* StreamlitUserAuthentication object of the dashboard; the text inputs    *)
(* of the view keep what the user typed under their keys in the session    *)
(* state; microservice_obj.login() answers with the header of the session  *)
(* it opened, or with an exception (a string naming its type).             *)
(***************************************************************************)
STATE_USERNAME == "loginview__username"

STATE_PASSWORD == "loginview__password"

STATE_ERROR_MSG == "loginview__error_msg"

PumpWoodUnauthorized == "PumpWoodUnauthorized"

\* msg = "Erro ao executar o login"
LoginErrorMsg == PyStr("Erro ao executar o login")

\* st.text_input(label, key=key): the widget stores its value under key
text_input(m, key, typed, depth) ==
    Log([m EXCEPT !.ss = SetItem(@, key, typed)],
        Event("write", "text_input", key, 0, typed, ~Contains(m.ss, key),
              FALSE, depth))

\* StreamlitUserAuthenticationLoginView.render
render(m, username, password, depth) ==
    LET m1 == text_input(m, STATE_USERNAME, username, depth)
        m2 == text_input(m1, STATE_PASSWORD, password, depth)
        m3 == call_op(m2, Call("get_value", STATE_ERROR_MSG, PyNone, FALSE,
                               TRUE), depth + 1)
    IN  IF Raised(m3) THEN m3 ELSE Return(m3, PyNone)

\* microservice_obj.login() for the username and the password read
remote_login(m, username, password, reply, depth) ==
    LET m1 == Log(m, Event("remote", "login", username.s, 0, password,
                           FALSE, reply.t = "dict", depth))
    IN  IF reply.t = "dict" THEN Return(m1, reply)
        ELSE Raise(m1, reply.s, "", depth + 1)

\* variant: every exception of the login is shown as a message
login_on_click_catch_all(m, reply, depth) ==
    LET m1 == call_op(m, Call("get_value", STATE_USERNAME, EMPTY_VALUE,
                              FALSE, FALSE), depth + 1)
        m2 == call_op(m1, Call("get_value", STATE_PASSWORD, EMPTY_VALUE,
                               FALSE, FALSE), depth + 1)
        m3 == remote_login(m2, m1.ret, m2.ret, reply, depth)
        m4 == set_auth_header(m3, m3.ret, depth + 1)
        m5 == call_op(m4, Call("set_value", STATE_ERROR_MSG, PyNone, TRUE,
                               FALSE), depth + 1)
        m6 == call_op([m3 EXCEPT !.exc = NoExc],
                      Call("set_value", STATE_ERROR_MSG, LoginErrorMsg, TRUE,
                           FALSE), depth + 1)
    IN  IF Raised(m1) THEN m1
        ELSE IF Raised(m2) THEN m2
        ELSE IF Raised(m3)
        THEN IF Raised(m6) THEN m6 ELSE Return(m6, PyNone)
        ELSE IF Raised(m4) THEN m4
        ELSE IF Raised(m5) THEN m5
        ELSE Return(m5, PyNone)

\* StreamlitUserAuthenticationLoginView.login_on_click
login_on_click(m, reply, depth) ==
    LET m1 == call_op(m, Call("get_value", STATE_USERNAME, EMPTY_VALUE,
                              FALSE, FALSE), depth + 1)
        m2 == call_op(m1, Call("get_value", STATE_PASSWORD, EMPTY_VALUE,
                               FALSE, FALSE), depth + 1)
        m3 == remote_login(m2, m1.ret, m2.ret, reply, depth)
        m4 == set_auth_header(m3, m3.ret, depth + 1)
        m5 == call_op(m4, Call("set_value", STATE_ERROR_MSG, PyNone, TRUE,
                               FALSE), depth + 1)
        \* except PumpWoodUnauthorized:
        m6 == call_op([m3 EXCEPT !.exc = NoExc],
                      Call("set_value", STATE_ERROR_MSG, LoginErrorMsg, TRUE,
                           FALSE), depth + 1)
    IN  IF Raised(m1) THEN m1
        ELSE IF Raised(m2) THEN m2
        ELSE IF Raised(m3)
        THEN IF m3.exc.type = PumpWoodUnauthorized
             THEN IF Raised(m6) THEN m6 ELSE Return(m6, PyNone)
             \* except Exception as e: raise e
             ELSE m3
        ELSE IF Raised(m4) THEN m4
        ELSE IF Raised(m5) THEN m5
        ELSE Return(m5, PyNone)

\* StreamlitUserAuthenticationLoginView.logout_on_click
logout_on_click(m, depth) ==
    LET m1 == set_auth_header(m, PyNone, depth + 1)
    IN  IF Raised(m1) THEN m1 ELSE Return(m1, PyNone)

\* what the user types
Usernames == {PyStr(""), PyStr("ana")}

Passwords == {PyStr(""), PyStr("pw")}

\* the answers to microservice_obj.login()
LoginOutcomes ==
    Headers \cup {PyStr(PumpWoodUnauthorized), PyStr("ConnectionError")}

\* the environments in which the singleton streamlit_auth can be built
LoginEnvirons ==
    {e \in AuthEnvirons :
        ~(/\ Truthy(e["DEBUG_AUTHORIZATION_TOKEN"])
          /\ e["DEPLOY"] = PyStr("TRUE"))}

InitLogin ==
    /\ session_state = EmptyDict
    /\ TRIGGERS = TriggersNone
    /\ DEBUG_FILES_PATH \in {PyNone, PyStr("/debug")}
    /\ last = NoLast
    /\ written = EmptyDict
    /\ inited = {}
    /\ environ \in LoginEnvirons
    /\ cookies = PyNone
    /\ self = Object(UserAuthentication, PyNone)
    /\ requests = {}
    /\ logins = {}

\* the page is drawn: render()
CallRender ==
    /\ \E username \in Usernames, password \in Passwords :
          \E m \in {render(Machine(session_state), username, password, 0)} :
             Called(Call("render", "", PyNone, FALSE, FALSE), m, self)
    /\ UNCHANGED <<TRIGGERS, DEBUG_FILES_PATH, inited, environ, cookies,
                   requests, logins>>

\* the button "Entrar" is pressed: login_on_click()
CallLoginOnClick ==
    /\ \E reply \in LoginOutcomes :
          \E m \in {login_on_click(Machine(session_state), reply, 0)} :
             /\ Called(Call("login_on_click", "", reply, FALSE, FALSE), m,
                       self)
             /\ logins' = IF Writes(m.trace, AUTH_TOKEN_STATE) # {}
                          THEN logins \cup {reply} ELSE logins
    /\ UNCHANGED <<TRIGGERS, DEBUG_FILES_PATH, inited, environ, cookies,
                   requests>>

\* logout_on_click()
CallLogoutOnClick ==
    /\ \E m \in {logout_on_click(Machine(session_state), 0)} :
          Called(Call("logout_on_click", "", PyNone, FALSE, FALSE), m, self)
    /\ UNCHANGED <<TRIGGERS, DEBUG_FILES_PATH, inited, environ, cookies,
                   requests, logins>>

NextLogin ==
    \/ CallRender
    \/ CallLoginOnClick
    \/ CallLogoutOnClick
    \/ CallGetAuthHeader

SpecLogin == InitLogin /\ [][NextLogin]_vars

(***************************************************************************)
(* The registration of the dashboard on the gateway:                       *)
(* src/build/lib/pumpwood_streamlit/register.py.  The microservice answers *)
(* a call with a value, or with an exception (a string naming its type).   *)
(***************************************************************************)
MaxPk == 3      \* the primary keys the gateway gives are 1..MaxPk

\* the object a save returns: {"pk": pk, ...}
Saved(pk) == [t |-> "dict", n |-> pk, s |-> "pk"]

\* the answers to microservice.login()
LoginReplies == {PyNone, PyStr("PumpWoodUnauthorized")}

\* the answers to microservice.save(...): an exception, an object without
\* "pk", a saved object
SaveReplies ==
    {PyStr("PumpWoodException"), EmptyMapping}
        \cup {Saved(pk) : pk \in 1..MaxPk}

\* the call op is sent to the microservice
request(m, op, state, idx, val, depth) ==
    Log(m, Event("request", op, state, idx, val, FALSE, FALSE, depth))

\* the microservice answers the call op
reply(m, op, answer, depth) ==
    IF answer.t = "str"
    THEN Raise(Log(m, Event("raise", op, "", 0, answer, FALSE, FALSE,
                            depth + 1)),
               answer.s, op, depth + 1)
    ELSE Return(Log(m, Event("reply", op, "", 0, answer, FALSE, FALSE,
                             depth + 1)),
                answer)

\* "streamlit-" + DASHBOARD_NAME and the like: str + None raises
Concat(m, prefix, name, depth) ==
    IF name.t = "str" THEN Return(m, PyStr(prefix \o name.s))
    ELSE Raise(m, "TypeError", "", depth)

\* service_object["pk"]
Subscript_pk(m, service_object, depth) ==
    IF service_object.s = "pk" THEN Return(m, PyInt(service_object.n))
    ELSE Raise(m, "KeyError", "", depth)

\* the first try block: the login
register_login(m, login, depth) ==
    reply(request(m, "login", "", 0, PyNone, depth), "login", login, depth)

\* the second try block: the save of the service
register_service(m, service, depth) ==
    LET m1 == Concat(m, "streamlit-", getenv("DASHBOARD_NAME", PyNone), depth)
    IN  IF Raised(m1) THEN m1
        ELSE reply(request(m1, "KongService", m1.ret.s, 0,
                           getenv("SERVICE_URL", PyNone), depth),
                   "KongService", service, depth)

\* variant: the route is saved for the service of primary key 1
register_route_first_service(m, service_object, route, depth) ==
    LET m1 == Concat(m, "streamlit-", getenv("DASHBOARD_NAME", PyNone), depth)
    IN  reply(request(m1, "KongRoute", m1.ret.s, 1, PyNone, depth),
              "KongRoute", route, depth)

\* the third try block: the save of the route
register_route(m, service_object, route, depth) ==
    LET m1 == Subscript_pk(m, service_object, depth)
        m2 == Concat(m1, "streamlit-", getenv("DASHBOARD_NAME", PyNone),
                     depth)
    IN  IF Raised(m1) THEN m1
        ELSE IF Raised(m2) THEN m2
        ELSE reply(request(m2, "KongRoute", m2.ret.s, m1.ret.n, PyNone,
                           depth),
                   "KongRoute", route, depth)

\* PumpwoodStreamlitRegister.run: every except clause raises again what it
\* has caught
register_run(m, login, service, route, depth) ==
    LET m1 == register_login(m, login, depth)
        m2 == register_service(m1, service, depth)
        m3 == Concat(m2, "/streamlit/", getenv("DASHBOARD_NAME", PyNone),
                     depth)
        m4 == register_route(m3, m2.ret, route, depth)
    IN  IF Raised(m1) THEN m1
        ELSE IF Raised(m2) THEN m2
        ELSE IF Raised(m3) THEN m3
        ELSE IF Raised(m4) THEN m4
        ELSE Return(m4, PyNone)

\* the saves sent in a trace
Saves(trace) ==
    {trace[i] : i \in {j \in 1..Len(trace) :
                         /\ trace[j].ev = "request"
                         /\ trace[j].op # "login"}}

RegisterEnviron(dashboard_name, service_url) ==
    [k \in EnvNames |->
        CASE k = "DASHBOARD_NAME" -> dashboard_name
          [] k = "SERVICE_URL" -> service_url
          [] k = "MICROSERVICE_URL" -> PyStr("http://auth")
          [] OTHER -> PyNone]

RegisterEnvirons ==
    {RegisterEnviron(dashboard_name, service_url) :
        dashboard_name \in {PyNone, PyStr("sales"), PyStr("stock")},
        service_url \in {PyNone, PyStr("http://dashboard")}}

InitRegister ==
    /\ session_state = EmptyDict
    /\ TRIGGERS = TriggersNone
    /\ DEBUG_FILES_PATH = PyNone
    /\ last = NoLast
    /\ written = EmptyDict
    /\ inited = {}
    /\ environ \in RegisterEnvirons
    /\ cookies = PyNone
    /\ self = NoObject
    /\ requests = {}
    /\ logins = {}

\* PumpwoodStreamlitRegister.run()
CallRegisterRun ==
    /\ \E login \in LoginReplies, service \in SaveReplies,
          route \in SaveReplies :
          \E m \in {register_run(Machine(session_state), login, service,
                                 route, 0)} :
             /\ last' = [call |-> Call("register", "", PyNone, FALSE, FALSE),
                         trace |-> m.trace, files |-> m.files, exc |-> m.exc,
                         ret |-> IF Raised(m) THEN PyNone ELSE m.ret]
             /\ requests' = requests \cup Saves(m.trace)
    /\ UNCHANGED <<session_state, TRIGGERS, DEBUG_FILES_PATH, written, inited,
                   environ, cookies, self, logins>>

NextRegister == CallRegisterRun

SpecRegister == InitRegister /\ [][NextRegister]_vars

(***************************************************************************)
(* Vocabulary of the properties.                                           *)
(***************************************************************************)
IsOwn(e) == e.depth = 0

\* what the call itself did, leaving out what its trigger functions did,
\* and leaving out whether its write created the key
Own(trace) ==
    LET own == SelectSeq(trace, IsOwn)
    IN  [i \in 1..Len(own) |-> [own[i] EXCEPT !.new = FALSE]]

\* the triggers of a type registered for state, as the events of running
\* them in the order of their definition in TRIGGERS[state]
TriggerEvents(state, type) ==
    LET items == TriggersGet(state).items
        idx == SelectSeq([i \in 1..Len(items) |-> i],
                         LAMBDA i : items[i].type = type)
    IN  [j \in 1..Len(idx) |->
            Event("trigger", type, state, idx[j], PyNone, FALSE, FALSE, 0)]

\* no trigger at all is registered for state
NoTriggers(state) == TriggersGet(state) = TriggerList(<<>>)

\* TRIGGERS[state] is a list without get triggers
NoGetTriggers(state) ==
    /\ TriggersGet(state).is_list
    /\ TriggerEvents(state, "StateBeforeGetTrigger") = <<>>
    /\ TriggerEvents(state, "StateAfterGetTrigger") = <<>>

\* the other keys are as they were
OthersUnchanged(state) ==
    \A k \in Keys \ {state} :
        /\ k \in DOMAIN session_state <=> k \in DOMAIN session_state'
        /\ k \in DOMAIN session_state => session_state'[k] = session_state[k]

(***************************************************************************)
(* C1                                                                      *)
(***************************************************************************)
C1Step ==
    last'.call.op = "set_value" =>
        LET c == last'.call
            missing == ~Contains(session_state, c.state) /\ ~c.flag
        IN  /\ last'.exc = Exc(NotFound, c.state, 0) <=> missing
            /\ missing => /\ last'.trace = <<>>
                          /\ session_state' = session_state

\* C1: set_value itself raises the not-found exception exactly when the key
\* is absent from the session state and ignore_init_error is False; then no
\* trigger has run and the session state is unchanged.
C1_SetValueNotFound == [][C1Step]_vars

\* a set_value on an absent key that has triggers registered was refused
C1_Witness ==
    /\ last.call.op = "set_value"
    /\ last.exc = Exc(NotFound, last.call.state, 0)
    /\ TriggerEvents(last.call.state, "StateBeforeSetTrigger") # <<>>
    /\ last.trace = <<>>

(***************************************************************************)
(* C2                                                                      *)
(***************************************************************************)
C2Step ==
    last'.call.op = "get_value" =>
        LET c == last'.call
            missing == ~Contains(session_state, c.state) /\ ~c.given
        IN  /\ last'.exc = Exc(NotFound, c.state, 0) <=> missing
            /\ missing => /\ last'.trace = <<>>
                          /\ session_state' = session_state

\* C2: get_value itself raises the not-found exception exactly when the key
\* is absent from the session state and the caller gave no default value;
\* then no get trigger has run and the session state is unchanged.
C2_GetValueNotFound == [][C2Step]_vars

(***************************************************************************)
(* C3                                                                      *)
(***************************************************************************)
C3Writes ==
    LET c == last'.call
        should == ~Contains(session_state, c.state) \/ c.flag
    IN  /\ Writes(last'.trace, c.state) # {} <=> should
        /\ Contains(session_state', c.state)
        /\ session_state'[c.state] =
              IF should THEN c.value ELSE session_state[c.state]
        /\ OthersUnchanged(c.state)

C3Step ==
    last'.call.op = "init" =>
        /\ C3Writes
        /\ last'.exc = NoExc
        /\ last'.ret = PyStr(last'.call.state)

\* C3: init writes init_value under the key if and only if the key is absent
\* or force_value is True, leaves a present key as it was otherwise, leaves
\* all other keys unchanged, and in every case returns the state name.
C3_InitWritesIffAbsentOrForced == [][C3Step]_vars

(***************************************************************************)
(* C4                                                                      *)
(***************************************************************************)
\* C4: in a set_value that succeeded, the before-set triggers of the key ran
\* before the write and its after-set triggers after the write, each group
\* in the order of the TRIGGERS list of the key.
C4_SetTriggerOrder ==
    (last.call.op = "set_value" /\ last.exc = NoExc) =>
        LET c == last.call IN
        Own(last.trace) =
            TriggerEvents(c.state, "StateBeforeSetTrigger")
            \o <<Event("write", "set_value", c.state, 0, c.value, FALSE,
                        c.flag, 0)>>
            \o TriggerEvents(c.state, "StateAfterSetTrigger")

\* a set_value succeeded on a key with two before-set and two after-set
\* triggers
C4_Witness ==
    /\ last.call.op = "set_value"
    /\ last.exc = NoExc
    /\ Len(TriggerEvents(last.call.state, "StateBeforeSetTrigger")) >= 2
    /\ Len(TriggerEvents(last.call.state, "StateAfterSetTrigger")) >= 2
    /\ Len(Own(last.trace)) >= 5

(***************************************************************************)
(* C5                                                                      *)
(***************************************************************************)
\* the index of the call's own lookup in its trace
OwnLookup(trace) ==
    CHOOSE i \in 1..Len(trace) : trace[i].ev = "lookup" /\ trace[i].depth = 0

\* what is stored for the key when the call's own lookup is made: the
\* latest write before it, else what was stored when the call started
StoredAtLookup(ss, trace, state, default_value) ==
    LET before == {i \in Writes(trace, state) : i < OwnLookup(trace)} IN
    IF before # {} THEN trace[Max(before)].val
    ELSE IF state \in DOMAIN ss THEN ss[state]
    ELSE default_value

C5Step ==
    (last'.call.op = "get_value" /\ last'.exc = NoExc) =>
        LET c == last'.call
            default_value == IF c.given THEN c.value ELSE EMPTY_VALUE
        IN  /\ Own(last'.trace) =
                  TriggerEvents(c.state, "StateBeforeGetTrigger")
                  \o <<Event("lookup", "get_value", c.state, 0, last'.ret,
                             FALSE, FALSE, 0)>>
                  \o TriggerEvents(c.state, "StateAfterGetTrigger")
            /\ last'.ret = StoredAtLookup(session_state, last'.trace, c.state,
                                          default_value)

\* C5: in a get_value that does not raise, the before-get triggers of the
\* key run before the lookup and its after-get triggers after it, each group
\* in definition order, and the value returned is the one stored at the
\* moment of the lookup: it reflects the writes of the before-get triggers
\* and not those of the after-get triggers.
C5_GetTriggerOrder == [][C5Step]_vars

\* a get_value returned what a before-get trigger had just written, and an
\* after-get trigger then stored something else
C5_Witness ==
    /\ last.call.op = "get_value"
    /\ last.exc = NoExc
    /\ \E i \in Writes(last.trace, last.call.state) :
          i < OwnLookup(last.trace) /\ last.trace[i].val = last.ret
    /\ \E i \in Writes(last.trace, last.call.state) :
          i > OwnLookup(last.trace) /\ last.trace[i].val # last.ret
    /\ session_state[last.call.state] # last.ret

(***************************************************************************)
(* C6                                                                      *)
(***************************************************************************)
C6Step ==
    (/\ last'.call.op = "get_value"
     /\ last'.call.given
     /\ NoGetTriggers(last'.call.state)) =>
        LET c == last'.call IN
        /\ last'.exc = NoExc
        /\ session_state' = session_state
        /\ last'.ret = IF Contains(session_state, c.state)
                       THEN session_state[c.state] ELSE c.value

\* C6: for every default value the caller supplies, get_value on an absent
\* key returns that default without raising and without creating the key,
\* and on a present key it returns the stored value and ignores the default
\* (stated for the keys without get triggers).
C6_DefaultValueFallback == [][C6Step]_vars

(***************************************************************************)
(* C7                                                                      *)
(***************************************************************************)
C7Step ==
    last'.call.op = "init" =>
        LET c == last'.call IN
        /\ Contains(session_state', c.state)
        /\ (c.state \in inited /\ ~c.flag) =>
              /\ session_state' = session_state
              /\ last'.exc = NoExc

\* C7: initialization is idempotent: once init has been called for a key,
\* the key is in the session state, and a later init of that key without
\* force leaves the whole session state as it is, whatever calls were made
\* in between.
C7_InitIdempotent == [][C7Step]_vars

\* a second init of a key, with another value and without force, came after
\* the init that created the key and wrote nothing
C7_Witness ==
    /\ last.call.op = "init"
    /\ ~last.call.flag
    /\ last.call.state \in inited
    /\ last.trace = <<>>
    /\ session_state[last.call.state] # last.call.value

(***************************************************************************)
(* C8                                                                      *)
(***************************************************************************)
C8Step ==
    LET c == last'.call IN
    /\ (c.op = "set_value" /\ last'.exc = NoExc /\ NoTriggers(c.state)) =>
          written'[c.state] = c.value
    /\ (c.op = "init" /\ ~Contains(session_state, c.state)) =>
          written'[c.state] = c.value
    /\ (c.op = "get_value" /\ NoTriggers(c.state)
          /\ c.state \in DOMAIN written) =>
          /\ last'.exc = NoExc
          /\ last'.ret = written[c.state]
    /\ session_state' = written'

C9_EntriesNeverDestroyed ==
    [][DOMAIN session_state \subseteq DOMAIN session_state']_vars

\* a present key was overwritten with None, as a logout does, and is still
\* present
C9_Witness ==
    /\ last.call.op = "set_value"
    /\ ~last.call.flag
    /\ last.call.value = PyNone
    /\ last.exc = NoExc
    /\ Contains(session_state, last.call.state)
    /\ session_state[last.call.state] = PyNone

(***************************************************************************)
(* C10                                                                     *)
(***************************************************************************)
\* the write that put into the session state a key the call has added
Creation(k) == last'.trace[Min(Writes(last'.trace, k))]

C10Step ==
    \A k \in DOMAIN session_state' \ DOMAIN session_state :
        /\ Writes(last'.trace, k) # {}
        /\ Creation(k).new
        /\ Creation(k).op = "init"

\* C10: every key present in the session state was first introduced by an
\* init call, never by set_value or get_value.
C10_CreatedByInitOnly == [][C10Step]_vars

C10AmendedStep ==
    \A k \in DOMAIN session_state' \ DOMAIN session_state :
        /\ Writes(last'.trace, k) # {}
        /\ Creation(k).new
        /\ \/ Creation(k).op = "init"
           \/ Creation(k).op = "set_value" /\ Creation(k).flag

\* C10 as amended: every key present in the session state was first
\* introduced by an init call or by a set_value called with
\* ignore_init_error=True, never by get_value, by does_state_exists or by a
\* set_value without that flag.
C10_CreatedByInitOrFlaggedSet == [][C10AmendedStep]_vars

\* a key was created by set_value(..., ignore_init_error=True)
C10_Witness ==
    /\ last.call.op = "set_value"
    /\ last.call.flag
    /\ last.exc = NoExc
    /\ \E i \in Writes(last.trace, last.call.state) :
          /\ last.trace[i].new
          /\ last.trace[i].depth = 0
    /\ Contains(session_state, last.call.state)

(***************************************************************************)
(* Vocabulary of the properties of the authentication and the dashboard.   *)
(***************************************************************************)
\* the indexes of the events ev of method op in a trace
Events(trace, ev, op) ==
    {i \in 1..Len(trace) : trace[i].ev = ev /\ trace[i].op = op}

\* the indexes of the questions put to the remote service
Remote(trace) == Events(trace, "remote", "check_if_logged")

(***************************************************************************)
(* C11.  check_if_logged(raise_error) puts one question to the remote      *)
(* service, about the header get_auth_header resolves; it returns True     *)
(* when the answer is logged, raises                                       *)
(* PumpwoodStreamlitUnauthorizedException when the answer is not logged    *)
(* and raise_error is True, and returns False without raising when the     *)
(* answer is not logged and raise_error is False.                          *)
(***************************************************************************)
C11Step ==
    last'.call.op = "check_if_logged" =>
        LET trace == last'.trace
            raise_error == last'.call.flag
        IN  /\ Cardinality(Remote(trace)) = 1
            /\ \A i \in Remote(trace) :
                  /\ i = Len(trace)
                  /\ trace[i].val
                        = get_auth_header(Machine(session_state), self, 0).ret
                  /\ trace[i].flag =>
                        last'.exc = NoExc /\ last'.ret = PyBool(TRUE)
                  /\ ~trace[i].flag /\ raise_error =>
                        last'.exc = Exc(Unauthorized, "", 0)
                  /\ ~trace[i].flag /\ ~raise_error =>
                        last'.exc = NoExc /\ last'.ret = PyBool(FALSE)

C11_CheckIfLogged == [][C11Step]_vars

\* a login-based authentication, asked to raise, has raised on a header
\* the remote service refused
C11_Witness ==
    /\ last.call.op = "check_if_logged"
    /\ last.call.state = UserAuthentication
    /\ last.call.flag
    /\ last.exc.type = Unauthorized
    /\ \E i \in Remote(last.trace) : last.trace[i].val \in Headers

(***************************************************************************)
(* C12.  Deploy lock: building an authentication object, or the dashboard  *)
(* of build/lib, while DEBUG_AUTHORIZATION_TOKEN is not None and DEPLOY is *)
(* 'TRUE' raises a configuration error, so that no such object exists in   *)
(* a deployed environment with a debug token set.                          *)
(***************************************************************************)
\* the classes whose __init__ reads DEBUG_AUTHORIZATION_TOKEN and DEPLOY
LockClasses == AuthClasses \cup {DashboardLib}

C12_DeployLock ==
    DEBUG_AUTHORIZATION_TOKEN # PyNone /\ DEPLOY =>
        /\ self.cls \notin LockClasses
        /\ last.call.op = "__init__" /\ last.call.state \in LockClasses =>
              last.exc.type \in {ConfigError, StreamlitException}

(***************************************************************************)
(* C13.  In a run of the dashboard, main_view is called only after         *)
(* validate_authentication has returned True in that run; when the         *)
(* validation returns False, authentication_error_page is called and       *)
(* main_view is not; and set_page_config is the first thing a run does,    *)
(* before any validation.                                                  *)
(***************************************************************************)
\* the indexes of the calls of a method of the dashboard in a trace
Calls(trace, name) == Events(trace, "call", name)

\* the indexes at which the validation got the answer is_logged
Validated(trace, is_logged) ==
    {i \in Remote(trace) :
        /\ trace[i].flag = is_logged
        /\ i - 1 \in Calls(trace, "validate_authentication")}

C13_MainViewAfterValidation ==
    last.call.op = "run" =>
        LET trace == last.trace
        IN  /\ \A i \in Calls(trace, "main_view") :
                  \E v \in Validated(trace, TRUE) : v < i
            /\ Validated(trace, FALSE) # {} =>
                  /\ Calls(trace, "main_view") = {}
                  /\ \E i \in Calls(trace, "authentication_error_page") :
                        \A v \in Validated(trace, FALSE) : v < i
            /\ Calls(trace, "set_page_config") = {1}
            /\ \A v \in Calls(trace, "validate_authentication") : 1 < v
            /\ \A i \in Remote(trace) :
                  i - 1 \in Calls(trace, "validate_authentication")

\* a run has rendered the main view
C13_Witness ==
    /\ last.call.op = "run"
    /\ last.call.state = DashboardLib
    /\ Validated(last.trace, TRUE) # {}
    /\ Calls(last.trace, "main_view") # {}
    /\ last.exc = NoExc

(***************************************************************************)
(* C14.  An unauthorized, not-found-state or configuration exception       *)
(* raised while run renders the dashboard, that is by main_view, does not  *)
(* escape run: run catches it and calls error_handler, which renders the   *)
(* error page.                                                             *)
(***************************************************************************)
\* the indexes at which the method name raised an exception of the types
Raises(trace, name, types) ==
    {i \in Events(trace, "raise", name) : trace[i].val.s \in types}

SessionKey(s) == "pumpwood_st__" \o s

C15_ManagedStatesPrefixed ==
    \A s \in DOMAIN written :
        /\ SessionKey(s) \in DOMAIN session_state
        /\ s \notin DOMAIN session_state

(***************************************************************************)
(* C16.  get_states_and_triggers returns a dictionary with one entry for   *)
(* each key of the session state (each entry listing the triggers of the   *)
(* state in the order of their definition) and leaves the session state    *)
(* as it was.                                                              *)
(***************************************************************************)
\* a dictionary of n entries
DictOf(n) == [t |-> "dict", n |-> n, s |-> ""]

C16Step ==
    last'.call.op = "get_states_and_triggers" =>
        /\ last'.exc = NoExc
        /\ last'.ret = DictOf(Cardinality(DOMAIN session_state))
        /\ session_state' = session_state

C16_StatesAndTriggers == [][C16Step]_vars

(***************************************************************************)
(* C17.  StreamlitPumpwoodAuthentication.get_auth_header gives             *)
(* {'Authorization': token} when DEBUG_AUTHORIZATION_TOKEN is set,         *)
(* otherwise {'Authorization': 'Token ' + cookie} when the request has the *)
(* PumpwoodAuthorization cookie, otherwise None; what it gives is always   *)
(* None or a mapping with the single key 'Authorization' (this much also   *)
(* for the older StreamlitPumpwoodAuthetication).                          *)
(***************************************************************************)
C17_HeaderPriority ==
    last.call.op = "get_auth_header" =>
        /\ last.call.state = PumpwoodAuthentication =>
              /\ last.exc = NoExc
              /\ last.ret =
                    IF environ["DEBUG_AUTHORIZATION_TOKEN"] # PyNone
                    THEN [t |-> "dict", n |-> 1,
                          s |-> environ["DEBUG_AUTHORIZATION_TOKEN"].s]
                    ELSE IF cookies # PyNone
                    THEN [t |-> "dict", n |-> 1, s |-> "Token " \o cookies.s]
                    ELSE PyNone
        /\ last.call.state \in {PumpwoodAuthentication, PumpwoodAuthetication}
              => \/ last.ret = PyNone
                 \/ last.ret.t = "dict" /\ last.ret.n = 1

\* the debug token and the cookie are both there, and the token is taken
C17_Witness ==
    /\ last.call.op = "get_auth_header"
    /\ last.call.state = PumpwoodAuthentication
    /\ environ["DEBUG_AUTHORIZATION_TOKEN"] = PyStr("tok")
    /\ cookies = PyStr("c1")
    /\ last.ret = Header("tok")

(***************************************************************************)
(* C18.  For StreamlitUserAuthentication without debug token: after        *)
(* set_auth_header(h), get_auth_header returns h until the next            *)
(* set_auth_header or logout; as long as set_auth_header has not been      *)
(* called it returns an empty mapping; and after logout it does not return *)
(* a header stored before.                                                 *)
(***************************************************************************)
\* the latest set_auth_header or logout was set_auth_header(h)
Stored(h) ==
    AUTH_TOKEN_STATE \in DOMAIN written /\ written[AUTH_TOKEN_STATE] = h

C18_StoredHeader ==
    /\ last.call.op = "get_auth_header"
    /\ last.call.state = UserAuthentication
    /\ environ["DEBUG_AUTHORIZATION_TOKEN"] = PyNone
    => /\ last.exc = NoExc
       /\ \A h \in Headers : Stored(h) => last.ret = h
       /\ logins = {} => last.ret = EmptyMapping
       /\ Stored(PyNone) => last.ret \notin logins

\* amended: the empty mapping is what is returned as long as neither
\* set_auth_header nor logout has been called; after logout it is None
C18_StoredHeaderOrNone ==
    /\ last.call.op = "get_auth_header"
    /\ last.call.state = UserAuthentication
    /\ environ["DEBUG_AUTHORIZATION_TOKEN"] = PyNone
    => /\ last.exc = NoExc
       /\ \A h \in Headers : Stored(h) => last.ret = h
       /\ AUTH_TOKEN_STATE \notin DOMAIN written => last.ret = EmptyMapping
       /\ Stored(PyNone) => last.ret = PyNone

\* a header was stored, then logout was called, and get_auth_header gives
\* None
C18_Witness ==
    /\ last.call.op = "get_auth_header"
    /\ last.call.state = UserAuthentication
    /\ environ["DEBUG_AUTHORIZATION_TOKEN"] = PyNone
    /\ logins # {}
    /\ Stored(PyNone)
    /\ last.ret = PyNone

(***************************************************************************)
(* C19.  PumpwoodStreamlitRegister.run logs in, then saves the service,    *)
(* then saves the route, whose service_id is the pk the save of the        *)
(* service returned; when the login fails no save is sent, when the save   *)
(* of the service fails the route is not sent, and the exception of the    *)
(* failing step is the one run raises.                                     *)
(***************************************************************************)
C19_RegisterOrder ==
    last.call.op = "register" =>
        LET trace == last.trace
            login == Events(trace, "request", "login")
            service == Events(trace, "request", "KongService")
            route == Events(trace, "request", "KongRoute")
        IN  /\ login = {1}
            /\ Cardinality(service) <= 1 /\ Cardinality(route) <= 1
            /\ \A i \in service : 2 \in Events(trace, "reply", "login")
            /\ \A r \in route :
                  \E i \in service :
                     /\ i < r
                     /\ i + 1 \in Events(trace, "reply", "KongService")
                     /\ trace[i + 1].val = Saved(trace[r].idx)
            /\ \A i \in Events(trace, "raise", "login") :
                  /\ service = {} /\ route = {}
                  /\ last.exc.type = trace[i].val.s
            /\ \A i \in Events(trace, "raise", "KongService") :
                  /\ route = {}
                  /\ last.exc.type = trace[i].val.s
            /\ \A i \in Events(trace, "raise", "KongRoute") :
                  last.exc.type = trace[i].val.s

\* the service was saved with primary key 2 and its route was saved
C19_Witness ==
    /\ last.call.op = "register"
    /\ last.exc = NoExc
    /\ \E r \in Events(last.trace, "request", "KongRoute") :
          last.trace[r].idx = 2

(***************************************************************************)
(* C20.  A get_value or a set_value on the key k runs only triggers of the *)
(* list TRIGGERS[k], and only those of its own phases: get_value runs no   *)
(* before-set or after-set trigger, set_value no before-get or after-get   *)
(* trigger, and no trigger registered under another key is run; no trigger *)
(* is run twice, and when the operation returns each trigger of its phases *)
(* has run exactly once.  (What a trigger function calls is an operation   *)
(* of its own.)                                                            *)
(***************************************************************************)
\* the phases of an operation
Phases(op) ==
    IF op = "get_value"
    THEN {"StateBeforeGetTrigger", "StateAfterGetTrigger"}
    ELSE {"StateBeforeSetTrigger", "StateAfterSetTrigger"}

\* the indexes of the triggers the call itself has run
OwnTriggers(trace) ==
    {i \in 1..Len(trace) : trace[i].ev = "trigger" /\ trace[i].depth = 0}

C20_OnlyOwnTriggers ==
    last.call.op \in {"get_value", "set_value"} =>
        LET trace == last.trace
            k == last.call.state
            items == TriggersGet(k).items
        IN  /\ \A i \in OwnTriggers(trace) :
                  /\ trace[i].state = k
                  /\ trace[i].op \in Phases(last.call.op)
                  /\ trace[i].idx \in 1..Len(items)
                  /\ items[trace[i].idx].type = trace[i].op
            /\ \A i, j \in OwnTriggers(trace) :
                  trace[i].idx = trace[j].idx => i = j
            /\ last.exc = NoExc =>
                  \A n \in 1..Len(items) :
                     items[n].type \in Phases(last.call.op) =>
                        \E i \in OwnTriggers(trace) : trace[i].idx = n

\* a set_value on a key with get and set triggers, whose triggers have
\* made calls on the other key, has returned
C20_Witness ==
    /\ TRIGGERS = TriggersOrdered
    /\ last.call.op = "set_value"
    /\ last.call.state = "a"
    /\ last.exc = NoExc
    /\ Cardinality(OwnTriggers(last.trace)) = 4
    /\ \E i \in 1..Len(last.trace) :
          last.trace[i].ev = "trigger" /\ last.trace[i].state = "b"

(***************************************************************************)
(* C21                                                                     *)
(***************************************************************************)
\* the exception of the call came out of a trigger function
RaisedByTrigger(l) == l.exc # NoExc /\ l.exc.depth >= 1

\* the key is stored, or missing, as it was
KeyUnchanged(state) ==
    /\ Contains(session_state', state) <=> Contains(session_state, state)
    /\ Contains(session_state, state) =>
          session_state'[state] = session_state[state]

C21Step ==
    (last'.call.op = "set_value" /\ RaisedByTrigger(last')) =>
        LET c == last'.call
            trace == last'.trace
            before == TriggerEvents(c.state, "StateBeforeSetTrigger")
            after == TriggerEvents(c.state, "StateAfterSetTrigger")
            write == Event("write", "set_value", c.state, 0, c.value, FALSE,
                           c.flag, 0)
        IN  \/ \E n \in 1..Len(before) :
                  /\ Own(trace) = SubSeq(before, 1, n)
                  /\ Writes(trace, c.state) = {} => KeyUnchanged(c.state)
            \/ \E n \in 1..Len(after) :
                  /\ Own(trace) = before \o <<write>> \o SubSeq(after, 1, n)
                  /\ Contains(session_state', c.state)
                  /\ trace[Max(Writes(trace, c.state))].depth = 0 =>
                        session_state'[c.state] = c.value

\* C21: when a before-set trigger raises in set_value, set_value has run
\* the before-set triggers up to that one only, has not written and has run
\* no after-set trigger, and the key is as it was before the call; when an
\* after-set trigger raises, the value is written and stays written, and
\* the after-set triggers after that one are not run.
C21_TriggerRaises == [][C21Step]_vars

\* the second before-set trigger of a key that holds another value has
\* raised: the first had run, the after-set trigger registered behind them
\* has not
C21_Witness ==
    /\ last.call.op = "set_value"
    /\ last.exc.type = "TriggerError"
    /\ Len(TriggerEvents(last.call.state, "StateAfterSetTrigger")) >= 1
    /\ Len(Own(last.trace)) = 2
    /\ Contains(session_state, last.call.state)
    /\ session_state[last.call.state] # last.call.value

(***************************************************************************)
(* C22                                                                     *)
(***************************************************************************)
\* the call reads: does_state_exists, or get_value on a key for which no
\* before-get and no after-get trigger is registered
ReadsOnly(c) ==
    \/ c.op = "does_state_exists"
    \/ /\ c.op = "get_value"
       /\ TriggerEvents(c.state, "StateBeforeGetTrigger") = <<>>
       /\ TriggerEvents(c.state, "StateAfterGetTrigger") = <<>>

C22Step ==
    ReadsOnly(last'.call) =>
        /\ session_state' = session_state
        /\ \A k \in Keys : Writes(last'.trace, k) = {}

\* C22: does_state_exists, and get_value on a key without get triggers,
\* leave the session state exactly as it was, whether the call returns the
\* stored value, the default value or a boolean, or raises.
C22_ReadsDoNotWrite == [][C22Step]_vars

\* get_value has returned the default value given for a key that is not
\* stored, while another key is, and the key is still not stored
C22_Witness ==
    /\ last.call.op = "get_value"
    /\ ReadsOnly(last.call)
    /\ last.call.given
    /\ last.exc = NoExc
    /\ last.ret = last.call.value
    /\ ~Contains(session_state, last.call.state)
    /\ session_state # EmptyDict

(***************************************************************************)
(* C23                                                                     *)
(***************************************************************************)
C23Step ==
    (/\ last'.call.op \in {"get_value", "set_value"}
     /\ ~TriggersGet(last'.call.state).is_list) =>
        LET c == last'.call
            missing ==
                /\ ~Contains(session_state, c.state)
                /\ ~(IF c.op = "get_value" THEN c.given ELSE c.flag)
        IN  /\ last'.exc =
                  Exc(IF missing THEN NotFound ELSE ConfigError, c.state, 0)
            /\ last'.trace = <<>>
            /\ session_state' = session_state

\* C23: when the TRIGGERS entry of a key is not a list, get_value and
\* set_value on the key raise the configuration exception, having run no
\* trigger and written nothing; the not-found check comes first, so on an
\* absent key, with no default value given or with ignore_init_error False,
\* the not-found exception is the one raised.
C23_NotAListRaises == [][C23Step]_vars

(***************************************************************************)
(* C24                                                                     *)
(***************************************************************************)
\* the call itself has stored its value, so it has gone on to debug_data
OwnWrite(l) ==
    \E i \in 1..Len(l.trace) :
        /\ l.trace[i].ev = "write"
        /\ l.trace[i].depth = 0
        /\ l.trace[i].op = l.call.op

\* C24: debug_data is best-effort.  Without DEBUG_FILES_PATH no debug file
\* is written.  With it, an init or a set_value that has stored a value
\* which cannot be serialized still completes: it raises nothing of its
\* own, set_value goes on to its after-set triggers, and when no trigger
\* raises init returns the state name and set_value returns True.
C24_DebugBestEffort ==
    /\ DEBUG_FILES_PATH = PyNone => last.files = <<>>
    /\ (/\ last.call.op \in {"init", "set_value"}
        /\ DEBUG_FILES_PATH # PyNone
        /\ ~JsonSerializable(last.call.value)
        /\ OwnWrite(last)) =>
          /\ last.exc = NoExc \/ RaisedByTrigger(last)
          /\ last.exc = NoExc =>
                last.ret = IF last.call.op = "init"
                           THEN PyStr(last.call.state) ELSE PyBool(TRUE)

(***************************************************************************)
(* C25                                                                     *)
(***************************************************************************)
\* the classes of authentication/pumpwood and authentication/login
BypassClasses == {PumpwoodAuthentication, UserAuthentication}

\* C25: where DEPLOY is 'TRUE', whatever DEBUG_AUTHORIZATION_TOKEN holds
\* (the empty string included), get_auth_header of an authentication
\* object that was built never returns the header made of the debug token:
\* the lock of __init__ and the bypass of get_auth_header test the same
\* condition.
C25_LockAgreesWithBypass ==
    (/\ DEPLOY
     /\ DEBUG_AUTHORIZATION_TOKEN # PyNone
     /\ self.cls \in BypassClasses
     /\ last.call.op = "get_auth_header"
     /\ last.exc = NoExc) =>
        last.ret # Header(DEBUG_AUTHORIZATION_TOKEN.s)

(***************************************************************************)
(* C26                                                                     *)
(***************************************************************************)
C26Step ==
    last'.call.op = "login_on_click" =>
        LET answer == last'.call.value
            typed == /\ Contains(session_state, STATE_USERNAME)
                     /\ Contains(session_state, STATE_PASSWORD)
        IN  IF typed /\ answer \in Headers
            THEN /\ last'.exc = NoExc
                 /\ Contains(session_state', AUTH_TOKEN_STATE)
                 /\ session_state'[AUTH_TOKEN_STATE] = answer
                 /\ Contains(session_state', STATE_ERROR_MSG)
                 /\ session_state'[STATE_ERROR_MSG] = PyNone
            ELSE IF typed /\ answer = PyStr(PumpWoodUnauthorized)
            THEN /\ last'.exc = NoExc
                 /\ Contains(session_state', STATE_ERROR_MSG)
                 /\ session_state'[STATE_ERROR_MSG] = LoginErrorMsg
                 /\ KeyUnchanged(AUTH_TOKEN_STATE)
            ELSE /\ last'.exc # NoExc
                 /\ typed => last'.exc.type = answer.s
                 /\ KeyUnchanged(AUTH_TOKEN_STATE)
                 /\ KeyUnchanged(STATE_ERROR_MSG)

\* C26: login_on_click.  When the login succeeds, the header it returned is
\* the stored auth header and the error message state is None.  When the
\* login raises PumpWoodUnauthorized, the error message state holds a
\* message and the stored auth header is as it was.  Any other exception
\* leaves login_on_click, with the stored auth header and the error message
\* state as they were.
C26_LoginOnClick == [][C26Step]_vars

\* a login was refused while the header of an earlier login is stored and
\* no error message was shown: the message is set, the header is kept
C26_Witness ==
    /\ last.call.op = "login_on_click"
    /\ last.call.value = PyStr(PumpWoodUnauthorized)
    /\ last.exc = NoExc
    /\ Contains(session_state, AUTH_TOKEN_STATE)
    /\ session_state[AUTH_TOKEN_STATE] \in Headers
    /\ session_state[STATE_ERROR_MSG] = LoginErrorMsg
    /\ \E i \in 1..Len(last.trace) :
          /\ last.trace[i].ev = "write"
          /\ last.trace[i].state = STATE_ERROR_MSG
          /\ last.trace[i].new = FALSE

(***************************************************************************)
(* C27                                                                     *)
(***************************************************************************)
\* the headers validate_authentication builds from a cookie
CookieHeaders == {Header("Token " \o c.s) : c \in Cookies \ {PyNone}}

\* C27: validate_authentication validates the credentials of the request
\* at hand: the header it gives to the remote check is the one built from
\* the PumpwoodAuthorization cookie of this request, and when this request
\* has no cookie it is never a header built from the cookie of an earlier
\* request on the same dashboard object.
C27_ValidatesCurrentRequest ==
    last.call.op = "run" =>
        \A i \in Remote(last.trace) :
            i - 1 \in Calls(last.trace, "validate_authentication") =>
                IF cookies # PyNone
                THEN last.trace[i].val = cookie_header
                ELSE last.trace[i].val \notin CookieHeaders

====
